---- MODULE Spec2Model ----
\* Model of src/trading/supper_simple_stock_market.py: Stock valuation, the
\* class-level trade book of StockMarket, calculate_VWSP and the all-share
\* index of GlobalBeverageCorporationExchange.
\*
\* Numbers.  Python floats that the code rounds to 4 decimals are held as
\* integers in units of 1/10000 (Scale); fixed_dividend, a fraction, is held in
\* hundredths (FdScale).  round(x, 4) is round-half-even of the exact quotient;
\* for the inputs enumerated here the quotient is never within a float ulp of
\* a tie, so the exact quotient and the float quotient round alike.  float64
\* overflow (prices or products beyond about 1.8e308) is outside this model.
\* Time.  datetime values are integers counting minutes; timedelta(minutes=m)
\* is m.
EXTENDS Integers, Sequences, FiniteSets, TLC

VARIABLES lists, instances, now, last

vars == <<lists, instances, now, last>>

\* ---------------------------------------------------------------- bounds
MaxBook == 3
MaxTime == 2
MaxInst == 1

\* ------------------------------------------------------------- constants
Scale == 10000
FdScale == 100
Base == 10000

None == <<>>
Some(x) == <<x>>
IsNone(x) == x = <<>>
Val(x) == x[1]

\* -------------------------------------------------------------- rounding
\* round(num / den, 4) in units of 1/Scale, den > 0, num >= 0: half to even.
Round4(num, den) ==
    LET n == num * Scale
        q == n \div den
        r == n % den
    IN  IF 2 * r < den THEN q
        ELSE IF 2 * r > den THEN q + 1
        ELSE IF q % 2 = 0 THEN q ELSE q + 1

\* ------------------------------------------------- arbitrary precision
\* Naturals as little-endian sequences of digits in base Base, without
\* leading zeros (zero is <<>>); used for np.prod and the n-th root.  A factor
\* stays below 2^31 / Base, which holds for prices up to 10.
RECURSIVE BigMulCarry(_, _, _)
BigMulCarry(a, k, c) ==
    IF a = <<>>
    THEN IF c = 0 THEN <<>> ELSE <<c % Base>> \o BigMulCarry(<<>>, k, c \div Base)
    ELSE LET t == a[1] * k + c
         IN  <<t % Base>> \o BigMulCarry(Tail(a), k, t \div Base)

BigMul(a, k) == IF k = 0 THEN <<>> ELSE BigMulCarry(a, k, 0)

RECURSIVE BigLeqFrom(_, _, _)
BigLeqFrom(a, b, i) ==
    IF i = 0 THEN TRUE
    ELSE IF a[i] # b[i] THEN a[i] < b[i]
    ELSE BigLeqFrom(a, b, i - 1)

BigLeq(a, b) ==
    IF Len(a) # Len(b) THEN Len(a) < Len(b) ELSE BigLeqFrom(a, b, Len(a))

RECURSIVE BigPow(_, _)
BigPow(k, n) == IF n = 0 THEN <<1>> ELSE BigMul(BigPow(k, n - 1), k)

RECURSIVE BigProd(_)
BigProd(values) ==
    IF values = <<>> THEN <<1>> ELSE BigMul(BigProd(Tail(values)), Head(values))

\* Pairs each value with the factor 2, so that the product is 2^n * prod.
RECURSIVE Doubled(_)
Doubled(values) ==
    IF values = <<>> THEN <<>> ELSE <<2 * Head(values)>> \o Doubled(Tail(values))

\* (2r - 1)^n <= x, where x is 2^n * prod: r - 1/2 <= prod^(1/n).
RootFits(r, n, x) == r = 0 \/ BigLeq(BigPow(2 * r - 1, n), x)

RECURSIVE RootAbove(_, _, _)
RootAbove(h, n, x) == IF RootFits(h, n, x) THEN RootAbove(2 * h, n, x) ELSE h

RECURSIVE RootBetween(_, _, _, _)
RootBetween(lo, hi, n, x) ==
    IF hi - lo <= 1 THEN lo
    ELSE LET mid == (lo + hi) \div 2
         IN  IF RootFits(mid, n, x) THEN RootBetween(mid, hi, n, x)
             ELSE RootBetween(lo, mid, n, x)

\* round(prod(values) ** (1 / len(values)), 4) in units of 1/Scale, the values
\* being in units of 1/Scale too: the integer nearest to the n-th root of the
\* integer product (an n-th root of an integer is never half an odd integer).
RoundedRoot(values) ==
    LET n == Len(values)
        x == BigProd(Doubled(values))
        h == RootAbove(Scale, n, x)
    IN  RootBetween(IF h = Scale THEN 0 ELSE h \div 2, h, n, x)

\* --------------------------------------------------------------- results
Ok(v) == [outcome |-> "ok", message |-> "", value |-> Some(v)]
OkNone == [outcome |-> "ok", message |-> "", value |-> None]
Raise(kind, msg) == [outcome |-> kind, message |-> msg, value |-> None]

PriceMessage == "Price must be greater than 0"
BookMessage == "Price and Quantity must be greater than 0"
EmptyMessage == "No trades booked for this market"

\* ----------------------------------------------------------------- Stock
Stock(symbol, par_value, stock_type, last_dividend, fixed_dividend) ==
    [symbol |-> symbol, par_value |-> par_value, type |-> stock_type,
     last_dividend |-> last_dividend, fixed_dividend |-> fixed_dividend]

get_dividend_yield(self, price) ==
    IF price <= 0 THEN Raise("ValueError", PriceMessage)
    ELSE IF self.type = "Preferred"
    THEN IF ~IsNone(self.fixed_dividend)
         THEN IF Val(self.fixed_dividend) <= 0 THEN Ok(0)
              ELSE Ok(Round4(Val(self.fixed_dividend) * self.par_value, price * FdScale))
         ELSE OkNone
    ELSE IF ~IsNone(self.last_dividend)
         THEN IF Val(self.last_dividend) <= 0 THEN Ok(0)
              ELSE Ok(Round4(Val(self.last_dividend), price))
         ELSE OkNone

get_pe_ratio(self, price) ==
    IF price <= 0 THEN Raise("ValueError", PriceMessage)
    ELSE IF IsNone(self.last_dividend) THEN Raise("TypeError", "")
    ELSE IF Val(self.last_dividend) <= 0 THEN Ok(0)
    ELSE Ok(Round4(price, Val(self.last_dividend)))

\* ----------------------------------------------------------------- Trade
Trade(stock, timestamp, quantity, buy_or_sell, price) ==
    [stock |-> stock, timestamp |-> timestamp, quantity |-> quantity,
     buy_or_sell |-> buy_or_sell, price |-> price]

\* ----------------------------------------------------------- StockMarket
Classes == {"StockMarket", "GlobalBeverageCorporationExchange"}

\* lists maps the class in whose namespace a trade list lives to that list.
\* The only list the program creates is StockMarket's (class body, line 56).
Deref(ref) == IF ref \in DOMAIN lists THEN lists[ref] ELSE <<>>

\* Variant: each class appends to and reads a list of its own.
TradesOf_PerClass(cls) == cls

\* cls.__trades, that is cls._StockMarket__trades: the attribute is looked up
\* along the class hierarchy and found in StockMarket for either class.
TradesOf(cls) == "StockMarket"

\* __new__: the new instance's _trades is the class list itself (an alias).
StockMarket__new__(cls) == [cls |-> cls, _trades |-> TradesOf(cls)]

\* Variants: both arguments must be bad; zero is let through.
BookTradeInvalid_Both(quantity, price) == quantity < 1 /\ price < 1
BookTradeInvalid_Negative(quantity, price) == quantity < 0 \/ price < 0

BookTradeInvalid(quantity, price) == quantity < 1 \/ price < 1

\* Variant: the record is put in front.
AppendRecord_Front(trades, record) == <<record>> \o trades

AppendRecord(trades, record) == Append(trades, record)

\* Variant: the emptiness check is missing.
IsEmptyMarket_Never(trades) == FALSE

IsEmptyMarket(trades) == Len(trades) = 0

\* Variant: the window boundary is excluded.
InWindow_Strict(entry_time, timestamp) == entry_time > timestamp

InWindow(entry_time, timestamp) == entry_time >= timestamp

RECURSIVE Reversed(_)
Reversed(s) == IF s = <<>> THEN <<>> ELSE Reversed(Tail(s)) \o <<Head(s)>>

RECURSIVE Column(_, _)
Column(s, i) == IF s = <<>> THEN <<>> ELSE <<Head(s)[i]>> \o Column(Tail(s), i)

SelectTrades(trades, symbol, minutes, clock) ==
    IF minutes > 0
    THEN LET timestamp == clock - minutes
             Keep(e) == InWindow(e[1], timestamp) /\ e[2].stock.symbol = symbol
         IN  Column(SelectSeq(Reversed(trades), Keep), 2)
    ELSE LET Keep(e) == e[2].stock.symbol = symbol
         IN  Column(SelectSeq(trades, Keep), 2)

RECURSIVE SumPriceQty(_)
SumPriceQty(ts) ==
    IF ts = <<>> THEN 0 ELSE Head(ts).price * Head(ts).quantity + SumPriceQty(Tail(ts))

RECURSIVE SumQty(_)
SumQty(ts) == IF ts = <<>> THEN 0 ELSE Head(ts).quantity + SumQty(Tail(ts))

\* Variant: an empty selection is reported as an empty market.
Divide_EmptyMarket(price_qty, sum_qty) ==
    IF sum_qty = 0 THEN Raise("ValueError", EmptyMessage)
    ELSE Ok(Round4(price_qty, sum_qty))

\* round(price_qty / sum_qty, 4): int / int raises ZeroDivisionError on 0.
Divide(price_qty, sum_qty) ==
    IF sum_qty = 0 THEN Raise("ZeroDivisionError", "division by zero")
    ELSE Ok(Round4(price_qty, sum_qty))

calculate_VWSP(cls, symbol, minutes) ==
    IF IsEmptyMarket(Deref(TradesOf(cls))) THEN Raise("ValueError", EmptyMessage)
    ELSE LET trades == SelectTrades(Deref(TradesOf(cls)), symbol, minutes, now)
         IN  Divide(SumPriceQty(trades), SumQty(trades))

\* ------------------------------------- GlobalBeverageCorporationExchange
\* Variant: one VWSP per distinct symbol instead of one per trade.
IndexPrices_PerSymbol(self) ==
    LET book == Deref(StockMarket__new__("StockMarket")._trades)
        First(i) == \A j \in 1..(i - 1) : book[j][2].stock.symbol # book[i][2].stock.symbol
        firsts == SelectSeq([i \in 1..Len(book) |-> i], First)
    IN  [k \in 1..Len(firsts) |->
            calculate_VWSP(self.cls, book[firsts[k]][2].stock.symbol, 0)]

\* Variant: the VWSP of the last minute instead of the all-time VWSP.
IndexPrices_Windowed(self) ==
    LET book == Deref(StockMarket__new__("StockMarket")._trades)
    IN  [i \in 1..Len(book) |->
            calculate_VWSP(self.cls, book[i][2].stock.symbol, 1)]

\* The list comprehension of line 111: one calculate_VWSP(symbol, 0) result
\* per entry of the list a fresh StockMarket instance aliases.
IndexPrices(self) ==
    LET book == Deref(StockMarket__new__("StockMarket")._trades)
    IN  [i \in 1..Len(book) |->
            calculate_VWSP(self.cls, book[i][2].stock.symbol, 0)]

RECURSIVE Values(_)
Values(rs) == IF rs = <<>> THEN <<>> ELSE <<Val(Head(rs).value)>> \o Values(Tail(rs))

all_stock_index(self) ==
    IF Len(Deref(self._trades)) = 0 THEN Raise("ValueError", EmptyMessage)
    ELSE LET prices == IndexPrices(self)
             failed == {i \in 1..Len(prices) : prices[i].outcome # "ok"}
             first == CHOOSE i \in failed : \A j \in failed : i <= j
         IN  IF failed # {} THEN prices[first]
             ELSE IF Len(prices) = 0 THEN Raise("ZeroDivisionError", "division by zero")
             ELSE Ok(RoundedRoot(Values(prices)))

\* ---------------------------------------------------------------- inputs
TEA == Stock("TEA", 100, "Common", Some(0), None)
GIN == Stock("GIN", 100, "Preferred", Some(8), Some(2))
Symbols == {"TEA", "GIN"}
Minutes == {-1, 0, 1}

Order(stock, buy_or_sell, quantity, price) ==
    [stock |-> stock, buy_or_sell |-> buy_or_sell, quantity |-> quantity,
     price |-> price]

\* The arguments book_trade is called with: valid ones and invalid ones.
Orders ==
    {Order(TEA, "Buy", 1, 1), Order(TEA, "Sell", 2, 3), Order(GIN, "Buy", 1, 3),
     Order(GIN, "Sell", 0, 3), Order(TEA, "Buy", 2, 0), Order(GIN, "Buy", 0, 0)}

StockObjects ==
    {Stock("X", 100, t, ld, fd) :
        t \in {"Common", "Preferred"},
        ld \in {None, Some(0), Some(8)},
        fd \in {None, Some(0), Some(2)}}
ValuationPrices == {-1, 0, 1, 3, 90}

\* ----------------------------------------------------------------- state
\* lists, instances: the program's objects.  now: the clock datetime.now()
\* reads.  last: the call that returned at the current instant (its class or
\* receiver, arguments and result) and the lists as they were before it.
NoLists == [c \in {"StockMarket"} |-> <<>>]

NoCall ==
    [op |-> "none", cls |-> "", args |-> <<>>, result |-> OkNone, before |-> NoLists]

Call(op, cls, args, result) ==
    [op |-> op, cls |-> cls, args |-> args, result |-> result, before |-> lists]

Init ==
    /\ lists = NoLists
    /\ instances = <<>>
    /\ now = 0
    /\ last = NoCall

\* Time passes between calls.
Tick ==
    /\ now < MaxTime
    /\ now' = now + 1
    /\ last' = NoCall
    /\ UNCHANGED <<lists, instances>>

\* StockMarket() or GlobalBeverageCorporationExchange().
New ==
    \E cls \in Classes :
        /\ Len(instances) < MaxInst
        /\ instances' = Append(instances, StockMarket__new__(cls))
        /\ last' = Call("__new__", cls, <<>>, OkNone)
        /\ UNCHANGED <<lists, now>>

BookTrade ==
    \E cls \in Classes, args \in Orders :
        LET ref == TradesOf(cls)
        IN  IF BookTradeInvalid(args.quantity, args.price)
            THEN /\ last' = Call("book_trade", cls, args, Raise("ValueError", BookMessage))
                 /\ UNCHANGED <<lists, instances, now>>
            ELSE LET timestamp == now
                     trade == Trade(args.stock, timestamp, args.quantity,
                                    args.buy_or_sell, args.price)
                     record == <<trade.timestamp, trade>>
                 IN  /\ Len(Deref(ref)) < MaxBook
                     /\ lists' = [r \in DOMAIN lists \cup {ref} |->
                                     IF r = ref THEN AppendRecord(Deref(ref), record)
                                     ELSE lists[r]]
                     /\ last' = Call("book_trade", cls, args, OkNone)
                     /\ UNCHANGED <<instances, now>>

CalculateVWSP ==
    \E cls \in Classes, symbol \in Symbols, minutes \in Minutes :
        /\ last' = Call("calculate_VWSP", cls, [symbol |-> symbol, minutes |-> minutes],
                        calculate_VWSP(cls, symbol, minutes))
        /\ UNCHANGED <<lists, instances, now>>

AllStockIndex ==
    \E i \in 1..Len(instances) :
        /\ instances[i].cls = "GlobalBeverageCorporationExchange"
        /\ last' = Call("all_stock_index", instances[i].cls, [self |-> i],
                        all_stock_index(instances[i]))
        /\ UNCHANGED <<lists, instances, now>>

Next == Tick \/ New \/ BookTrade \/ CalculateVWSP \/ AllStockIndex

Spec == Init /\ [][Next]_vars

\* Stock valuation alone: the two pure functions applied to every input.
GetDividendYield ==
    \E stock \in StockObjects, price \in ValuationPrices :
        /\ last' = Call("get_dividend_yield", "Stock", [self |-> stock, price |-> price],
                        get_dividend_yield(stock, price))
        /\ UNCHANGED <<lists, instances, now>>

GetPeRatio ==
    \E stock \in StockObjects, price \in ValuationPrices :
        /\ last' = Call("get_pe_ratio", "Stock", [self |-> stock, price |-> price],
                        get_pe_ratio(stock, price))
        /\ UNCHANGED <<lists, instances, now>>

StockNext == GetDividendYield \/ GetPeRatio

StockSpec == Init /\ [][StockNext]_vars

\* =================================================================
\* Properties
\* =================================================================
Book == Deref("StockMarket")
Before == IF "StockMarket" \in DOMAIN last.before THEN last.before["StockMarket"] ELSE <<>>
Succeeded == last.result.outcome = "ok"
EmptyMarket == Raise("ValueError", EmptyMessage)
InvalidArgument == Raise("ValueError", BookMessage)

\* The entries a VWSP query is to select, as positions of the book.
Matching(book, clock, symbol, minutes) ==
    {i \in 1..Len(book) :
        /\ book[i][2].stock.symbol = symbol
        /\ minutes > 0 => book[i][1] >= clock - minutes}

RECURSIVE SumPQ(_, _)
SumPQ(book, S) ==
    IF S = {} THEN 0
    ELSE LET i == CHOOSE j \in S : TRUE
         IN  book[i][2].price * book[i][2].quantity + SumPQ(book, S \ {i})

RECURSIVE SumQ(_, _)
SumQ(book, S) ==
    IF S = {} THEN 0
    ELSE LET i == CHOOSE j \in S : TRUE
         IN  book[i][2].quantity + SumQ(book, S \ {i})

ExpectedVWSP(book, clock, symbol, minutes) ==
    LET S == Matching(book, clock, symbol, minutes)
    IN  Round4(SumPQ(book, S), SumQ(book, S))

\* One all-time VWSP per entry of the book, in book order.
ExpectedPrices(book) ==
    [i \in 1..Len(book) |-> ExpectedVWSP(book, 0, book[i][2].stock.symbol, 0)]

\* r is prod(values)^(1/n) rounded to the nearest unit:
\* (2r - 1)^n <= 2^n * prod(values) < (2r + 1)^n.
IsRoundedGeometricMean(r, values) ==
    LET n == Len(values)
        x == BigProd(Doubled(values))
    IN  /\ r >= 1
        /\ BigLeq(BigPow(2 * r - 1, n), x)
        /\ ~BigLeq(BigPow(2 * r + 1, n), x)

PricesOf(book) == {book[i][2].price : i \in 1..Len(book)}

\* C1: book_trade with quantity < 1 or price < 1 fails with the ValueError
\* "Price and Quantity must be greater than 0" and leaves the trade book exactly
\* as it was, whatever was booked before.
C1_InvalidBookingRejected ==
    (last.op = "book_trade" /\ (last.args.quantity < 1 \/ last.args.price < 1))
        => /\ last.result = InvalidArgument
           /\ lists = last.before

C1_Witness ==
    /\ last.op = "book_trade"
    /\ last.args.quantity >= 1
    /\ last.args.price < 1
    /\ last.result = InvalidArgument
    /\ Len(Book) >= 2

\* C2: the book is append-only and in booking order: a successful book_trade
\* adds exactly one entry, at the end, stamped with the current time and
\* carrying the given stock, side, quantity and price, every earlier entry
\* staying in place; every other call leaves the book as it was; the
\* StockMarket list stays the only list.
C2_AppendOnly ==
    /\ DOMAIN lists = {"StockMarket"}
    /\ (last.op = "book_trade" /\ last.args.quantity >= 1 /\ last.args.price >= 1)
        => /\ Succeeded
           /\ Len(Book) = Len(Before) + 1
           /\ SubSeq(Book, 1, Len(Before)) = Before
           /\ Book[Len(Book)] =
                <<now, Trade(last.args.stock, now, last.args.quantity,
                             last.args.buy_or_sell, last.args.price)>>
    /\ last.op \in {"calculate_VWSP", "all_stock_index", "__new__"}
        => lists = last.before
    /\ \A i \in 1..Len(Book) : \A j \in 1..Len(Book) :
        i <= j => Book[i][1] <= Book[j][1]

C2_Witness ==
    /\ last.op = "book_trade"
    /\ Succeeded
    /\ Len(Book) >= 3
    /\ Book[1] # Book[Len(Book)]
    /\ Book[1][1] < Book[Len(Book)][1]

\* C3: one book for all classes and instances: right after a trade is booked
\* through either class, the book every class reads holds it, all_stock_index
\* on every exchange object constructed earlier and calculate_VWSP through
\* every class return the values computed over that whole book.
C3_SharedBook ==
    (last.op = "book_trade" /\ Succeeded) =>
        /\ Book = Append(Before, <<now, Trade(last.args.stock, now, last.args.quantity,
                                               last.args.buy_or_sell, last.args.price)>>)
        /\ \A i \in 1..Len(instances) :
            /\ Deref(instances[i]._trades) = Book
            /\ instances[i].cls = "GlobalBeverageCorporationExchange" =>
                LET r == all_stock_index(instances[i])
                IN  /\ r.outcome = "ok"
                    /\ IsRoundedGeometricMean(Val(r.value), ExpectedPrices(Book))
        /\ \A cls \in Classes, symbol \in Symbols, minutes \in Minutes :
            Matching(Book, now, symbol, minutes) # {} =>
                calculate_VWSP(cls, symbol, minutes)
                    = Ok(ExpectedVWSP(Book, now, symbol, minutes))

\* Every constructor call records itself in last, so the instance was
\* constructed before this booking.
C3_Witness ==
    /\ last.op = "book_trade"
    /\ Succeeded
    /\ last.cls = "StockMarket"
    /\ Len(Book) >= 2
    /\ \E i \in 1..Len(instances) : instances[i].cls = "GlobalBeverageCorporationExchange"

\* C4: on a non-empty book calculate_VWSP(symbol, minutes) with a non-empty
\* selection returns sum(price * quantity) / sum(quantity), rounded to 4
\* decimals, over the entries of that symbol that are, when minutes > 0, not
\* older than now - minutes (the boundary included), and over all entries of
\* that symbol when minutes <= 0.
C4_VwspSelection ==
    (last.op = "calculate_VWSP" /\ Len(Book) > 0
        /\ Matching(Book, now, last.args.symbol, last.args.minutes) # {})
        => last.result = Ok(ExpectedVWSP(Book, now, last.args.symbol, last.args.minutes))

\* One entry of the symbol older than the window, one exactly on its boundary
\* at another price, and an entry of another symbol.
C4_Witness ==
    /\ last.op = "calculate_VWSP"
    /\ last.args.minutes > 0
    /\ Succeeded
    /\ \E i, j, k \in 1..Len(Book) :
        /\ Book[i][2].stock.symbol = last.args.symbol
        /\ Book[i][1] < now - last.args.minutes
        /\ Book[j][2].stock.symbol = last.args.symbol
        /\ Book[j][1] = now - last.args.minutes
        /\ Book[j][2].price # Book[i][2].price
        /\ Book[k][2].stock.symbol # last.args.symbol

C6_EmptyMarket ==
    (last.op \in {"calculate_VWSP", "all_stock_index"} /\ Len(Before) = 0)
        => /\ last.result = EmptyMarket
           /\ lists = last.before

C6_Witness ==
    /\ last.op = "all_stock_index"
    /\ Len(Book) = 0
    /\ last.result = EmptyMarket

\* C7: every entry of the trade book has price >= 1 and quantity >= 1.
C7_EntriesPositive ==
    \A ref \in DOMAIN lists : \A i \in 1..Len(lists[ref]) :
        lists[ref][i][2].price >= 1 /\ lists[ref][i][2].quantity >= 1

C7_Witness ==
    /\ last.op = "book_trade"
    /\ last.args.quantity < 1
    /\ ~Succeeded
    /\ Len(Book) >= 3

\* C8: for every price > 0 get_dividend_yield returns a number: for Preferred
\* 0.0 when fixed_dividend is absent or <= 0 and fixed_dividend * par_value /
\* price otherwise; for Common 0.0 when last_dividend is absent or <= 0 and
\* last_dividend / price otherwise.
C8_DividendYieldIsNumber ==
    (last.op = "get_dividend_yield" /\ last.args.price > 0) =>
        LET stock == last.args.self
            price == last.args.price
            dividend == IF stock.type = "Preferred" THEN stock.fixed_dividend
                        ELSE stock.last_dividend
        IN  last.result =
                IF IsNone(dividend) \/ Val(dividend) <= 0 THEN Ok(0)
                ELSE IF stock.type = "Preferred"
                     THEN Ok(Round4(Val(dividend) * stock.par_value, price * FdScale))
                     ELSE Ok(Round4(Val(dividend), price))

\* C9: on a non-empty book a calculate_VWSP that selects nothing fails with
\* the division's own error: not EmptyMarket, and no price is returned.
C9_EmptySelectionDivides ==
    (last.op = "calculate_VWSP" /\ Len(Book) > 0
        /\ Matching(Book, now, last.args.symbol, last.args.minutes) = {})
        => /\ last.result.outcome = "ZeroDivisionError"
           /\ last.result # EmptyMarket
           /\ IsNone(last.result.value)

\* The symbol has a trade, but none inside the window.
C9_Witness ==
    /\ last.op = "calculate_VWSP"
    /\ last.args.minutes > 0
    /\ last.result.outcome = "ZeroDivisionError"
    /\ \E i \in 1..Len(Book) : Book[i][2].stock.symbol = last.args.symbol

====
